---- MODULE Spec2Model ----
(***************************************************************************)
(* A model of flam's FeatureBroker (flam/features.py) and of the Adapter   *)
(* built on top of it (flam/adaption.py), followed by the other utilities  *)
(* of the package, each with variables and a specification of its own.     *)
(*                                                                         *)
(* The broker's operations are pure operators over the _features mapping;  *)
(* the actions apply them to the broker under test.  The Adapter owns a    *)
(* FeatureBroker of its own, so its actions apply the same operators to a  *)
(* second mapping keyed by Adaption(from_, to).                            *)
(***************************************************************************)
EXTENDS Integers, Sequences, FiniteSets, TLC

VARIABLES
    features,      \* FeatureBroker._features of the broker under test
    count,         \* counter.count of the counting provider (features.py:96-99)
    last,          \* the last broker call: its name, key, exception and return value
    first,         \* history: how each key was classified when first registered
    log,           \* history: what was appended/extended to a key since it was registered
    adaptions,     \* Adapter._features._features, keyed by Adaption.key
    alast,         \* the last adapter call: its name, arguments, exception and return value
    callbacks,     \* Signal._callbacks of a Signal
    bound,         \* Signal._callbacks of a Callback
    mustBeBound,   \* Callback._must_be_bound of that Callback
    slast,         \* the last Signal/Callback call and what it invoked and returned
    laser,         \* __dict__ of the wrapped OrbitalLaser instance
    aspect,        \* __dict__ of the RedirectLaser aspect wrapping it
    plast,         \* the last access through the aspect and its outcome
    formFields,    \* Form.fields of the form under test
    flast,         \* the last call on the form and the Context validate returned
    tlast,         \* the last call of to_list: its arguments and the list returned
    tests,         \* the instances of Test made so far
    clast,         \* the last access of value and what it returned
    routes,        \* the paths with a rule in url_map and a view in view_map
    sessionStore,  \* the session kept by session_store
    wlast,         \* the last request served and its answer
    configFile,    \* the lines of the file that --config loads
    testDefined,   \* whether --test has been defined on the global parser
    flagValues,    \* flags.__dict__ of the global flags object
    glast,         \* the last call on the flags: its arguments, exception and return value
    queue,         \* ThreadPool._queue: the messages not yet taken by a worker
    pool,          \* ThreadPool._pool: the state of each thread
    executed,      \* how often the job of each add() call has been run
    added,         \* the number of add() calls so far
    poolLast,      \* the last call on the pool and the exception it raised
    commands,      \* FlagParser._commands: the registered function under each tuple of name words
    dlast          \* the last FlagParser call: its name, arguments, exception, return value and the command it invoked

brokerVars == <<features, count, last, first, log>>
adapterVars == <<adaptions, alast>>
signalVars == <<callbacks, bound, mustBeBound, slast>>
aspectVars == <<laser, aspect, plast>>
formVars == <<formFields, flast>>
toListVars == <<tlast>>
cachedVars == <<tests, clast>>
webVars == <<routes, sessionStore, wlast>>
flagsVars == <<configFile, testDefined, flagValues, glast>>
poolVars == <<queue, pool, executed, added, poolLast>>
commandVars == <<commands, dlast>>

\* The variables of the utilities modelled after the broker and the adapter.
laterVars == <<signalVars, aspectVars, formVars, toListVars, cachedVars, webVars, flagsVars, poolVars, commandVars>>

vars == <<brokerVars, adapterVars, laterVars>>

\* What the calls on one utility leave alone: the variables of all the others.
exceptSignal == <<brokerVars, adapterVars, aspectVars, formVars, toListVars, cachedVars, webVars, flagsVars, poolVars, commandVars>>
exceptAspect == <<brokerVars, adapterVars, signalVars, formVars, toListVars, cachedVars, webVars, flagsVars, poolVars, commandVars>>
exceptForm == <<brokerVars, adapterVars, signalVars, aspectVars, toListVars, cachedVars, webVars, flagsVars, poolVars, commandVars>>
exceptToList == <<brokerVars, adapterVars, signalVars, aspectVars, formVars, cachedVars, webVars, flagsVars, poolVars, commandVars>>
exceptCached == <<brokerVars, adapterVars, signalVars, aspectVars, formVars, toListVars, webVars, flagsVars, poolVars, commandVars>>
exceptWeb == <<brokerVars, adapterVars, signalVars, aspectVars, formVars, toListVars, cachedVars, flagsVars, poolVars, commandVars>>
exceptFlags == <<brokerVars, adapterVars, signalVars, aspectVars, formVars, toListVars, cachedVars, webVars, poolVars, commandVars>>
exceptPool == <<brokerVars, adapterVars, signalVars, aspectVars, formVars, toListVars, cachedVars, webVars, flagsVars, commandVars>>
exceptCommand == <<brokerVars, adapterVars, signalVars, aspectVars, formVars, toListVars, cachedVars, webVars, flagsVars, poolVars>>

----------------------------------------------------------------------------
(* Bounds *)

MaxLen == 2      \* longest feature sequence explored
MaxCount == 2    \* largest value the counting provider reaches
MaxCallbacks == 3 \* most callbacks connected to one Signal
MaxFields == 2    \* most fields added to one Form
MaxArgs == 3      \* longest command line parsed
MaxLines == 2     \* longest file loaded by --config
MaxChars == 3     \* longest string given to to_list
MaxItems == 2     \* longest list given to to_list
MaxElement == 2   \* largest number in such a list
MaxInstances == 5 \* most instances with a cached_property
MaxJobs == 6      \* most jobs added to the ThreadPool
Threads == 2      \* threads of the ThreadPool
MaxWords == 3     \* longest command line dispatched

----------------------------------------------------------------------------
(* Values handed to the broker *)

Keys == {"k1", "k2"}
HistoryKey == "k1"

\* Python's None, a plain (non-deferred) object.
None == [deferred |-> FALSE, v |-> "None"]

\* counter: the function counter itself, registered as a plain object.
\* deferred(counter): the counting provider of the doctests.
\* deferred(keyerr): a deferred callable that raises KeyError, e.g.
\* deferred(os.environ.__getitem__, 'MISSING').
Whats == {[deferred |-> FALSE, v |-> "counter"],
          [deferred |-> TRUE, v |-> "counter"],
          [deferred |-> TRUE, v |-> "keyerr"]}

\* The iterables passed to extend.
Iterables == {<<>>} \cup {<<w>> : w \in Whats}
                    \cup {<<w1, w2>> : w1 \in Whats, w2 \in Whats}

\* What a call returns: the registered object itself, or the integer that
\* counter() returned.  Descriptor is the Require object itself.
Obj(what) == [v |-> what.v, n |-> 0]
Counted(n) == [v |-> "int", n |-> n]
Descriptor == [v |-> "Require", n |-> 0]

EmptyMap == [k \in {} |-> None]
Put(F, k, x) == [j \in DOMAIN F \cup {k} |-> IF j = k THEN x ELSE F[j]]
Del(F, k) == [j \in DOMAIN F \ {k} |-> F[j]]

----------------------------------------------------------------------------
(* flam/features.py *)

\* Mutant of Callback: every callable is treated as a deferred, so a
\* callable registered as a plain object is called by require.
CallbackCallsCallables(what) ==
    [kind |-> "deferred", v |-> what.v]

\* _provide, lines 266-269: a deferred is stored as is, anything else is
\* wrapped in a lambda returning it.
Callback(what) ==
    IF what.deferred THEN [kind |-> "deferred", v |-> what.v]
    ELSE [kind |-> "lambda", v |-> what.v]

\* class Sequence(list): the marker that discriminates sequences.
Sequence(items) == [seq |-> TRUE, items |-> items]
Single(callback) == [seq |-> FALSE, items |-> <<callback>>]
isSequence(entry) == entry.seq

\* Mutant of _provide: no redeclaration check, the key is assigned anew
\* (a singleton replaces whatever was there, a sequence item starts a new
\* sequence on a singleton key).
_provideRedeclares(F, feature, what, sequence) ==
    LET callback == Callback(what) IN
    IF feature \in DOMAIN F /\ isSequence(F[feature]) /\ sequence
    THEN [f |-> [F EXCEPT ![feature] = Sequence(Append(@.items, callback))],
          exc |-> "none"]
    ELSE [f |-> Put(F, feature, IF sequence THEN Sequence(<<callback>>)
                                ELSE Single(callback)),
          exc |-> "none"]

\* Mutant of _provide: a new item is inserted at the front of the sequence.
_providePrepends(F, feature, what, sequence) ==
    LET callback == Callback(what) IN
    IF feature \in DOMAIN F
    THEN IF isSequence(F[feature]) /\ sequence
         THEN [f |-> [F EXCEPT ![feature] = Sequence(<<callback>> \o @.items)],
               exc |-> "none"]
         ELSE [f |-> F, exc |-> "Error"]
    ELSE [f |-> Put(F, feature, IF sequence THEN Sequence(<<callback>>)
                                ELSE Single(callback)),
          exc |-> "none"]

\* Mutant of _provide: appending to a singleton key turns the key into a
\* sequence of the old and the new provider instead of raising Error.
_provideConverts(F, feature, what, sequence) ==
    LET callback == Callback(what) IN
    IF feature \in DOMAIN F
    THEN IF sequence
         THEN [f |-> [F EXCEPT ![feature] = Sequence(Append(@.items, callback))],
               exc |-> "none"]
         ELSE [f |-> F, exc |-> "Error"]
    ELSE [f |-> Put(F, feature, IF sequence THEN Sequence(<<callback>>)
                                ELSE Single(callback)),
          exc |-> "none"]

\* FeatureBroker._provide
_provide(F, feature, what, sequence) ==
    LET callback == Callback(what) IN
    IF feature \in DOMAIN F
    THEN IF isSequence(F[feature])
         THEN IF ~sequence
              THEN [f |-> F, exc |-> "Error"]
              ELSE [f |-> [F EXCEPT ![feature] = Sequence(Append(@.items, callback))],
                    exc |-> "none"]
         ELSE [f |-> F, exc |-> "Error"]
    ELSE [f |-> Put(F, feature, IF sequence THEN Sequence(<<callback>>)
                                ELSE Single(callback)),
          exc |-> "none"]

\* FeatureBroker.provide
provide(F, feature, what) == _provide(F, feature, what, FALSE)

\* FeatureBroker.append
append(F, feature, what) == _provide(F, feature, what, TRUE)

\* FeatureBroker.extend: the for loop, left at the first exception.
RECURSIVE extendFrom(_, _, _, _)
extendFrom(F, feature, sequence, i) ==
    IF i > Len(sequence) THEN [f |-> F, exc |-> "none"]
    ELSE LET r == _provide(F, feature, sequence[i], TRUE) IN
         IF r.exc # "none" THEN r
         ELSE extendFrom(r.f, feature, sequence, i + 1)

extend(F, feature, sequence) == extendFrom(F, feature, sequence, 1)

\* list.remove(x): drops the first item equal to x, ValueError when there is
\* none.  A stored lambda equals no object a caller holds; a stored deferred
\* is the object that was registered.
ItemEquals(callback, element) ==
    callback.kind = "deferred" /\ element.deferred /\ callback.v = element.v

RECURSIVE listRemove(_, _)
listRemove(items, element) ==
    IF items = <<>> THEN [items |-> <<>>, exc |-> "ValueError"]
    ELSE IF ItemEquals(Head(items), element)
         THEN [items |-> Tail(items), exc |-> "none"]
         ELSE LET r == listRemove(Tail(items), element) IN
              [items |-> <<Head(items)>> \o r.items, exc |-> r.exc]

\* Mutant of remove: "and" written as "or", so removing a sequence key
\* without an element calls found.remove(None).
removeOr(F, feature, element) ==
    IF feature \notin DOMAIN F THEN [f |-> F, exc |-> "UnknownFeature"]
    ELSE IF isSequence(F[feature])
         THEN LET r == listRemove(F[feature].items, element) IN
              IF r.exc # "none" THEN [f |-> F, exc |-> r.exc]
              ELSE [f |-> [F EXCEPT ![feature] = Sequence(r.items)], exc |-> "none"]
         ELSE IF element # None THEN [f |-> F, exc |-> "AttributeError"]
         ELSE [f |-> Del(F, feature), exc |-> "none"]

\* FeatureBroker.remove
remove(F, feature, element) ==
    IF feature \notin DOMAIN F THEN [f |-> F, exc |-> "UnknownFeature"]
    ELSE IF isSequence(F[feature]) /\ element # None
         THEN LET r == listRemove(F[feature].items, element) IN
              IF r.exc # "none" THEN [f |-> F, exc |-> r.exc]
              ELSE [f |-> [F EXCEPT ![feature] = Sequence(r.items)], exc |-> "none"]
         ELSE [f |-> Del(F, feature), exc |-> "none"]

\* Calling a stored callback: the lambda returns the wrapped object,
\* deferred.__call__ runs the callable.
Call(callback, c) ==
    IF callback.kind = "lambda"
    THEN [exc |-> "none", ret |-> <<Obj(callback)>>, count |-> c]
    ELSE IF callback.v = "counter"
         THEN [exc |-> "none", ret |-> <<Counted(c + 1)>>, count |-> c + 1]
         ELSE [exc |-> "KeyError", ret |-> <<>>, count |-> c]

\* [r() for r in result]
RECURSIVE callAll(_, _, _, _)
callAll(items, i, c, acc) ==
    IF i > Len(items) THEN [exc |-> "none", ret |-> acc, count |-> c]
    ELSE LET r == Call(items[i], c) IN
         IF r.exc # "none" THEN [exc |-> r.exc, ret |-> <<>>, count |-> r.count]
         ELSE callAll(items, i + 1, r.count, acc \o r.ret)

\* FeatureBroker.require: the lookup and the calls are inside one
\* try/except KeyError, so a KeyError of either becomes UnknownFeature.
require(F, c, feature) ==
    IF feature \notin DOMAIN F
    THEN [exc |-> "UnknownFeature", list |-> FALSE, ret |-> <<>>, count |-> c]
    ELSE LET result == F[feature]
             r == IF isSequence(result) THEN callAll(result.items, 1, c, <<>>)
                  ELSE Call(result.items[1], c)
         IN [exc |-> IF r.exc = "KeyError" THEN "UnknownFeature" ELSE r.exc,
             list |-> isSequence(result) /\ r.exc = "none",
             ret |-> r.ret,
             count |-> r.count]

\* Require.__get__ of a Require(feature) attribute whose locator is the
\* broker: the descriptor itself on the class, require(feature) on an
\* instance.
get(F, c, feature, instance) ==
    IF ~instance
    THEN [exc |-> "none", list |-> FALSE, ret |-> <<Descriptor>>, count |-> c]
    ELSE require(F, c, feature)

----------------------------------------------------------------------------
(* flam/adaption.py *)

\* The classes adapted from.  A, B and C are new-style classes, B and C both
\* deriving from A (as str and unicode derive from basestring); O and P are
\* old-style classes, P deriving from O (the classes C and D of the Adapter
\* docstring).  An instance is modelled by its class.
Base == [object |-> "none", A |-> "object", B |-> "A", C |-> "A",
         O |-> "none", P |-> "O"]
NewStyle == {"object", "A", "B", "C"}
Types == {"A", "B", "C", "O", "P"}
Tos == {"t1", "t2"}

\* The adapters: f and g return a value built from the object; needs is an
\* adapter whose body requires a feature nobody provides, so it raises
\* UnknownFeature.
Adapters == {[deferred |-> FALSE, v |-> "f"],
             [deferred |-> FALSE, v |-> "g"],
             [deferred |-> FALSE, v |-> "needs"]}

\* The from_ arguments of adapts: a type, or a tuple of types.
One(t) == [tuple |-> FALSE, types |-> <<t>>]
Tuple(ts) == [tuple |-> TRUE, types |-> ts]
Froms == {One(t) : t \in Types}
         \cup {Tuple(ts) : ts \in {<<"B", "C">>, <<"A", "B">>}}

\* The adapts calls explored: every from_ and adapter for t1, and one
\* adaption to t2.
AdaptsCalls ==
    {<<from_, "t1", adapter>> : from_ \in Froms, adapter \in Adapters}
    \cup {<<One("A"), "t2", [deferred |-> FALSE, v |-> "f"]>>}

\* type.mro() of a new-style class: the class, then its bases up to object.
RECURSIVE typeMro(_)
typeMro(cls) ==
    IF Base[cls] = "none" THEN <<cls>> ELSE <<cls>> \o typeMro(Base[cls])

\* getattr(cls, 'mro', lambda: [cls])(): an old-style class has no mro.
mro(cls) == IF cls \in NewStyle THEN typeMro(cls) ELSE <<cls>>

\* Adaption(from_, to): compared and hashed by its key.
Adaption(from_, to) == <<from_, to>>

\* adapter(from_): what the registered adapter does with the object.
Apply(adapter, from_) ==
    IF adapter.v = "needs" THEN [exc |-> "UnknownFeature", ret |-> <<>>]
    ELSE [exc |-> "none", ret |-> <<[v |-> adapter.v, n |-> 0, of |-> from_]>>]

\* Adapter.adapts, the inner loop over the bases of one type from the i-th,
\* left at the first exception.
RECURSIVE adaptsBases(_, _, _, _, _)
adaptsBases(F, bases, i, to, adapter) ==
    IF i > Len(bases) THEN [f |-> F, exc |-> "none"]
    ELSE IF bases[i] = "object" THEN adaptsBases(F, bases, i + 1, to, adapter)
    ELSE LET r == provide(F, Adaption(bases[i], to), adapter) IN
         IF r.exc # "none" THEN r
         ELSE adaptsBases(r.f, bases, i + 1, to, adapter)

\* Adapter.adapts, the outer loop over the types from the i-th.
RECURSIVE adaptsTypes(_, _, _, _, _)
adaptsTypes(F, types, i, to, adapter) ==
    IF i > Len(types) THEN [f |-> F, exc |-> "none"]
    ELSE LET r == adaptsBases(F, mro(types[i]), 1, to, adapter) IN
         IF r.exc # "none" THEN r
         ELSE adaptsTypes(r.f, types, i + 1, to, adapter)

\* Mutant of adapts: the adapter is registered for the listed types alone,
\* not for their bases.
adaptsTypeOnly(F, from_, to, adapter) ==
    IF from_.types = <<>> THEN [f |-> F, exc |-> "none"]
    ELSE LET r == provide(F, Adaption(from_.types[1], to), adapter) IN
         IF r.exc # "none" \/ Len(from_.types) = 1 THEN r
         ELSE provide(r.f, Adaption(from_.types[2], to), adapter)

\* Adapter.adapts: a from_ that is no tuple or list is wrapped in a list.
adapts(F, from_, to, adapter) == adaptsTypes(F, from_.types, 1, to, adapter)

\* Adapter.remove
adapterRemove(F, from_, to) == remove(F, Adaption(from_, to), None)

\* Adapter.adapt, the loop over the classes from the i-th: require and the
\* call of the adapter are inside one try/except UnknownFeature.
RECURSIVE adaptFrom(_, _, _, _, _)
adaptFrom(F, classes, i, from_, to) ==
    IF i > Len(classes) THEN [exc |-> "InvalidAdaption", ret |-> <<>>]
    ELSE LET r == require(F, 0, Adaption(classes[i], to)) IN
         IF r.exc = "UnknownFeature" THEN adaptFrom(F, classes, i + 1, from_, to)
         ELSE LET a == Apply(r.ret[1], from_) IN
              IF a.exc = "UnknownFeature" THEN adaptFrom(F, classes, i + 1, from_, to)
              ELSE a

\* Adapter.adapt of an instance of cls.
adapt(F, cls, to) == adaptFrom(F, mro(cls), 1, cls, to)

----------------------------------------------------------------------------
(* Adapter actions *)

ACalled(op, from_, to, adapter, exc, ret) ==
    [op |-> op, from |-> from_, to |-> to, adapter |-> adapter, exc |-> exc, ret |-> ret]

Adapts(from_, to, adapter) ==
    LET r == adapts(adaptions, from_, to, adapter) IN
    /\ adaptions' = r.f
    /\ alast' = ACalled("adapts", from_, to, adapter.v, r.exc, <<>>)
    /\ UNCHANGED <<brokerVars, laterVars>>

AdapterRemove(from_, to) ==
    LET r == adapterRemove(adaptions, from_, to) IN
    /\ adaptions' = r.f
    /\ alast' = ACalled("remove", One(from_), to, "", r.exc, <<>>)
    /\ UNCHANGED <<brokerVars, laterVars>>

Adapt(cls, to) ==
    LET r == adapt(adaptions, cls, to) IN
    /\ alast' = ACalled("adapt", One(cls), to, "", r.exc, r.ret)
    /\ UNCHANGED <<adaptions, brokerVars, laterVars>>

----------------------------------------------------------------------------
(* flam/signal.py *)

\* The functions connected, and the arguments a Signal is called with.
\* A function called with an argument returns a value naming both.
Functions == {"f", "g"}
Args == {"x", "y"}
Returned(function, arg) == <<function, arg>>

\* list.remove(callback), as Signal.disconnect uses it: the first item equal
\* to callback is dropped, ValueError when there is none.
RECURSIVE removeFirst(_, _)
removeFirst(items, callback) ==
    IF items = <<>> THEN [items |-> <<>>, exc |-> "ValueError"]
    ELSE IF Head(items) = callback
         THEN [items |-> Tail(items), exc |-> "none"]
         ELSE LET r == removeFirst(Tail(items), callback) IN
              [items |-> <<Head(items)>> \o r.items, exc |-> r.exc]

\* Signal.connect
connect(cbs, callback) == Append(cbs, callback)

\* Signal.__call__: the functions invoked, in order, and the list returned.
signalCall(cbs, arg) ==
    [invoked |-> cbs,
     ret |-> [i \in 1..Len(cbs) |-> Returned(cbs[i], arg)]]

\* Signal.disconnect
disconnect(cbs, callback) == removeFirst(cbs, callback)

\* Callback.emit
emit(cbs, must_be_bound, arg) ==
    IF cbs = <<>>
    THEN IF must_be_bound
         THEN [exc |-> "UnboundCallback", invoked |-> <<>>, ret |-> <<>>]
         ELSE [exc |-> "none", invoked |-> <<>>, ret |-> <<"None">>]
    ELSE [exc |-> "none", invoked |-> <<cbs[Len(cbs)]>>,
          ret |-> <<Returned(cbs[Len(cbs)], arg)>>]

----------------------------------------------------------------------------
(* Signal and Callback actions *)

SCalled(op, callback, arg, exc, invoked, ret) ==
    [op |-> op, callback |-> callback, arg |-> arg, exc |-> exc,
     invoked |-> invoked, ret |-> ret]

\* on_init.connect(callback)
Connect(callback) ==
    /\ Len(callbacks) < MaxCallbacks
    /\ callbacks' = connect(callbacks, callback)
    /\ slast' = SCalled("connect", callback, "", "none", <<>>, <<>>)
    /\ UNCHANGED <<bound, mustBeBound, exceptSignal>>

\* on_init(arg)
SignalCall(arg) ==
    LET r == signalCall(callbacks, arg) IN
    /\ slast' = SCalled("call", "", arg, "none", r.invoked, r.ret)
    /\ UNCHANGED <<callbacks, bound, mustBeBound, exceptSignal>>

\* on_init.disconnect(callback)
Disconnect(callback) ==
    LET r == disconnect(callbacks, callback) IN
    /\ callbacks' = IF r.exc = "none" THEN r.items ELSE callbacks
    /\ slast' = SCalled("disconnect", callback, "", r.exc, <<>>, <<>>)
    /\ UNCHANGED <<bound, mustBeBound, exceptSignal>>

\* Callback.__call__(function): binds the function.
Bind(function) ==
    /\ Len(bound) < MaxCallbacks
    /\ bound' = connect(bound, function)
    /\ slast' = SCalled("bind", function, "", "none", <<>>, <<>>)
    /\ UNCHANGED <<callbacks, mustBeBound, exceptSignal>>

\* Callback.disconnect(function), inherited from Signal.
Unbind(function) ==
    LET r == disconnect(bound, function) IN
    /\ bound' = IF r.exc = "none" THEN r.items ELSE bound
    /\ slast' = SCalled("unbind", function, "", r.exc, <<>>, <<>>)
    /\ UNCHANGED <<callbacks, mustBeBound, exceptSignal>>

\* Callback.emit(arg)
Emit(arg) ==
    LET r == emit(bound, mustBeBound, arg) IN
    /\ slast' = SCalled("emit", "", arg, r.exc, r.invoked, r.ret)
    /\ UNCHANGED <<callbacks, bound, mustBeBound, exceptSignal>>

\* Callback(must_be_bound): a new Callback, with nothing bound.
NewCallback(must_be_bound) ==
    /\ bound' = <<>>
    /\ mustBeBound' = must_be_bound
    /\ slast' = SCalled("new", "", "", "none", <<>>, <<>>)
    /\ UNCHANGED <<callbacks, exceptSignal>>

\* Signal() and Callback(): must_be_bound defaults to True.
SignalInit ==
    /\ callbacks = <<>>
    /\ bound = <<>>
    /\ mustBeBound = TRUE
    /\ slast = SCalled("init", "", "", "none", <<>>, <<>>)

----------------------------------------------------------------------------
(* History kept for the properties.  It is recorded only when an action is  *)
(* taken with track = TRUE (the specification SpecHistory).                 *)

Kind(entry) == IF isSequence(entry) THEN "sequence" ELSE "singleton"

\* How each key was classified the first time it was registered.
FirstAfter(F2, track) ==
    IF ~track THEN first
    ELSE [k \in Keys |-> IF first[k] = "none" /\ k \in DOMAIN F2 THEN Kind(F2[k])
                         ELSE first[k]]

\* The whats appended and extended to a key, in call order, since it was
\* registered; pure is FALSE once any other call has changed the key.
NoLog == [pure |-> TRUE, whats |-> <<>>]
Dirty == [pure |-> FALSE, whats |-> <<>>]

Logged(k, ws, ok, track) ==
    IF track /\ ok /\ log[k].pure
    THEN [log EXCEPT ![k].whats = @ \o ws]
    ELSE log

----------------------------------------------------------------------------
(* Broker actions *)

Called(op, k, exc) == [op |-> op, key |-> k, exc |-> exc, list |-> FALSE, ret |-> <<>>]

Provide(k, what, track) ==
    LET r == provide(features, k, what) IN
    /\ features' = r.f
    /\ last' = Called("provide", k, r.exc)
    /\ first' = FirstAfter(r.f, track)
    /\ log' = IF track /\ r.exc = "none" THEN [log EXCEPT ![k] = Dirty] ELSE log
    /\ UNCHANGED <<count, adapterVars, laterVars>>

AppendTo(k, what, track) ==
    LET r == append(features, k, what) IN
    /\ k \in DOMAIN features => Len(features[k].items) < MaxLen
    /\ features' = r.f
    /\ last' = Called("append", k, r.exc)
    /\ first' = FirstAfter(r.f, track)
    /\ log' = Logged(k, <<what>>, r.exc = "none", track)
    /\ UNCHANGED <<count, adapterVars, laterVars>>

\* last.list records whether the iterable was non-empty.
Extend(k, sequence, track) ==
    LET r == extend(features, k, sequence) IN
    /\ k \in DOMAIN features => Len(features[k].items) + Len(sequence) <= MaxLen
    /\ features' = r.f
    /\ last' = [Called("extend", k, r.exc) EXCEPT !.list = sequence # <<>>]
    /\ first' = FirstAfter(r.f, track)
    /\ log' = Logged(k, sequence, r.exc = "none", track)
    /\ UNCHANGED <<count, adapterVars, laterVars>>

\* last.list records whether an element was given.
Remove(k, element, track) ==
    LET r == remove(features, k, element) IN
    /\ features' = r.f
    /\ last' = [Called("remove", k, r.exc) EXCEPT !.list = element # None]
    /\ log' = IF ~track \/ r.exc # "none" THEN log
              ELSE IF k \in DOMAIN r.f THEN [log EXCEPT ![k] = Dirty]
              ELSE [log EXCEPT ![k] = NoLog]
    /\ UNCHANGED <<count, first, adapterVars, laterVars>>

Require(k) ==
    LET r == require(features, count, k) IN
    /\ r.count <= MaxCount
    /\ count' = r.count
    /\ last' = [op |-> "require", key |-> k, exc |-> r.exc, list |-> r.list, ret |-> r.ret]
    /\ UNCHANGED <<features, first, log, adapterVars, laterVars>>

\* Reading the attribute Require(k) on the class or on an instance.
Get(k, instance) ==
    LET r == get(features, count, k, instance) IN
    /\ r.count <= MaxCount
    /\ count' = r.count
    /\ last' = [op |-> IF instance THEN "get" ELSE "classget", key |-> k,
                exc |-> r.exc, list |-> r.list, ret |-> r.ret]
    /\ UNCHANGED <<features, first, log, adapterVars, laterVars>>

BrokerInit ==
    /\ features = EmptyMap
    /\ count = 0
    /\ last = Called("init", "k1", "none")
    /\ first = [k \in Keys |-> "none"]
    /\ log = [k \in Keys |-> NoLog]

\* Adapter.__init__ without a features argument: a broker of its own.
AdapterInit ==
    /\ adaptions = EmptyMap
    /\ alast = ACalled("init", One("A"), "t1", "", "none", <<>>)

----------------------------------------------------------------------------
(* Aspects (flam/aspects.py): RedirectLaser(OrbitalLaser()) of the doctest *)

\* The attribute names read, assigned and called through the aspect.
Attrs == {"fire", "aim", "target", "power", "colour", "next"}

Str(s) == [kind |-> "str", v |-> s]
Method(name) == [kind |-> "method", v |-> name]
\* A plain function taking any arguments: def fn(*args): return 'fired'
Fn == [kind |-> "function", v |-> "fn"]
\* proxy_next_method, closed over the callable attribute it was made for
Proxy(next) == [kind |-> "proxy", v |-> next.v]
Underlying(proxy) == IF proxy.v = "fn" THEN Fn ELSE Method(proxy.v)
NoneValue == [kind |-> "None", v |-> ""]
\* The wrapped OrbitalLaser instance, as the value of the aspect's next
Wrapped == [kind |-> "object", v |-> "OrbitalLaser"]
\* No entry under that name in a __dict__
Missing == [kind |-> "missing", v |-> ""]

callable(value) == value.kind \in {"method", "function", "proxy"}

\* class OrbitalLaser: power = 11, def aim, def fire
OrbitalLaserClass ==
    [a \in Attrs |-> CASE a = "power" -> [kind |-> "int", v |-> "11"]
                       [] a = "aim" -> Method("OrbitalLaser.aim")
                       [] a = "fire" -> Method("OrbitalLaser.fire")
                       [] OTHER -> Missing]

\* The methods the aspect subclass RedirectLaser defines.
AspectMethods == {"fire"}

EmptyDict == [a \in Attrs |-> Missing]

Got(value) == [exc |-> "none", of |-> "", value |-> value]
Raised(exc, of) == [exc |-> exc, of |-> of, value |-> NoneValue]

\* getattr(laser, key) on the wrapped instance: its __dict__, then its class.
wrappedGetattr(dict, key) ==
    IF dict[key] # Missing THEN Got(dict[key])
    ELSE IF OrbitalLaserClass[key] # Missing THEN Got(OrbitalLaserClass[key])
    ELSE Raised("AttributeError", "OrbitalLaser")

\* OrbitalLaser.__init__(power): self.power = power or OrbitalLaser.power
OrbitalLaser(power) ==
    [EmptyDict EXCEPT !["power"] =
        IF power = NoneValue THEN OrbitalLaserClass["power"] ELSE power]

\* AspectBase.__init__(next, **attributes)
AspectBase(attributes) ==
    [a \in Attrs |-> IF attributes[a] # Missing THEN attributes[a]
                     ELSE IF a = "next" THEN Wrapped ELSE Missing]

\* A mutant of __setattr__: the assignment stays on the aspect.
__setattr__OnAspect(adict, dict, key, value) ==
    [aspect |-> [adict EXCEPT ![key] = value], laser |-> dict]

\* AspectBase.__setattr__(key, value), on the two __dict__s
__setattr__(adict, dict, key, value) ==
    IF adict["next"] # Missing
    THEN [aspect |-> adict, laser |-> [dict EXCEPT ![key] = value]]
    ELSE [aspect |-> [adict EXCEPT ![key] = value], laser |-> dict]

\* AspectBase.__getattr__(key); object has no __getattr__ to fall back on.
__getattr__(adict, dict, key) ==
    IF adict[key] # Missing THEN Raised("AttributeError", "object")
    ELSE LET next == wrappedGetattr(dict, key) IN
         IF next.exc # "none" THEN next
         ELSE IF callable(next.value) THEN Got(Proxy(next.value))
         ELSE next

\* laser.key through the aspect: the aspect's __dict__, then its class, and
\* __getattr__ only when both have nothing under that name.
aspectGetattr(adict, dict, key) ==
    IF adict[key] # Missing THEN Got(adict[key])
    ELSE IF key \in AspectMethods THEN Got(Method("RedirectLaser." \o key))
    ELSE __getattr__(adict, dict, key)

Result(exc, value, dict, called) ==
    [exc |-> exc, value |-> value, laser |-> dict, called |-> called]

\* Calling a value of the wrapped object with one argument (none for fire).
callValue(value, dict, arg) ==
    CASE value = Method("OrbitalLaser.aim") ->
            Result("none", NoneValue, [dict EXCEPT !["target"] = Str(arg)], value.v)
      [] value = Method("OrbitalLaser.fire") ->
            LET target == wrappedGetattr(dict, "target") IN
            Result(target.exc, target.value, dict, value.v)
      [] value = Fn -> Result("none", Str("fired"), dict, value.v)
      [] OTHER -> Result("TypeError", NoneValue, dict, "")

\* AspectBase.__callnext__(_method, *args)
__callnext__(method, dict, arg) == callValue(method, dict, arg)

\* RedirectLaser.fire()
RedirectLaser_fire(dict) ==
    LET real_target == wrappedGetattr(dict, "target") IN
    IF real_target.exc # "none"
    THEN Result(real_target.exc, NoneValue, dict, "RedirectLaser.fire")
    ELSE LET aimed == [dict EXCEPT !["target"] = Str("Sun")]
             result == callValue(wrappedGetattr(aimed, "fire").value, aimed, "")
         IN Result(result.exc, result.value,
                   [result.laser EXCEPT !["target"] = real_target.value],
                   "RedirectLaser.fire")

\* laser.key(arg) through the aspect
aspectCall(adict, dict, key, arg) ==
    LET f == aspectGetattr(adict, dict, key) IN
    IF f.exc # "none" THEN Result(f.exc, NoneValue, dict, "")
    ELSE IF f.value = Method("RedirectLaser.fire") THEN RedirectLaser_fire(dict)
    ELSE IF f.value.kind = "proxy" THEN __callnext__(Underlying(f.value), dict, arg)
    ELSE Result("TypeError", NoneValue, dict, "")

\* The values assigned through the aspect, and the arguments of aim.
Values == {Str("Moon"), Fn}
Targets == {"Moon"}
\* The keyword attributes the aspect is constructed with.
Attributes == {EmptyDict, [EmptyDict EXCEPT !["colour"] = Str("red")]}

PCalled(op, key, exc, of, value, called) ==
    [op |-> op, key |-> key, exc |-> exc, of |-> of, value |-> value,
     called |-> called]

\* laser = RedirectLaser(OrbitalLaser(), **attributes)
Construct(attributes) ==
    /\ laser' = OrbitalLaser(NoneValue)
    /\ aspect' = AspectBase(attributes)
    /\ plast' = PCalled("new", "", "none", "", NoneValue, "")
    /\ UNCHANGED exceptAspect

\* laser.key
GetAttr(key) ==
    LET r == aspectGetattr(aspect, laser, key) IN
    /\ plast' = PCalled("get", key, r.exc, r.of, r.value, "")
    /\ UNCHANGED <<laser, aspect, exceptAspect>>

\* laser.key = value
SetAttr(key, value) ==
    LET r == __setattr__(aspect, laser, key, value) IN
    /\ laser' = r.laser
    /\ aspect' = r.aspect
    /\ plast' = PCalled("set", key, "none", "", value, "")
    /\ UNCHANGED exceptAspect

\* laser.key(arg)
CallAttr(key, arg) ==
    LET r == aspectCall(aspect, laser, key, arg) IN
    /\ laser' = r.laser
    /\ plast' = PCalled("call", key, r.exc, "", r.value, r.called)
    /\ UNCHANGED <<aspect, exceptAspect>>

AspectInit ==
    /\ laser = OrbitalLaser(NoneValue)
    /\ aspect = AspectBase(EmptyDict)
    /\ plast = PCalled("new", "", "none", "", NoneValue, "")

----------------------------------------------------------------------------
(* Form validation (flam/validate.py): the user form of the doctest *)

\* Strings are sequences of characters, so that validators can look at them.
Lower == {"a", "c", "e", "h", "l", "m", "o", "s", "t"}
Digits == <<"0", "1", "2", "3", "4", "5", "6", "7", "8", "9">>
IsDigit(c) == \E d \in 1..10 : Digits[d] = c
DigitValue(c) == (CHOOSE d \in 1..10 : Digits[d] = c) - 1

Alec == <<"A", "l", "e", "c">>
Alecthomas == <<"a", "l", "e", "c", "t", "h", "o", "m", "a", "s">>
Twelve == <<"1", "2">>
Eighteen == <<"1", "8">>

\* A value held by the context: the posted string, or what int() made of it.
Text(s) == [int |-> FALSE, s |-> s, n |-> 0]
Integer(n) == [int |-> TRUE, s |-> <<>>, n |-> n]

RECURSIVE int(_)
\* int(s) of a string of decimal digits (the caller checks that it is one)
int(s) == IF s = <<>> THEN 0
          ELSE 10 * int(SubSeq(s, 1, Len(s) - 1)) + DigitValue(s[Len(s)])

MinNameLength == 6   \* MinLength(6)
MinAge == 18         \* Min(18)

Valid(value) == [exc |-> "none", value |-> value, text |-> ""]
Invalid(exc, text) == [exc |-> exc, value |-> Text(<<>>), text |-> text]

\* The validation aspects of the doctest and one that needs the context:
\*   MinLength(6), Pattern(r'^[a-z]+$'), Chain(int, Min(18)) and
\*   class Taken(Aspect), raising ValidationError('Alec is taken.') for 'Alec'.
Aspects == {"MinLength", "Pattern", "IntMin", "Taken"}

\* Aspect.apply(context, value, aspect)
apply(validator, value) ==
    CASE validator = "MinLength" ->
            IF Len(value.s) >= MinNameLength THEN Valid(value)
            ELSE Invalid("AssertionError", "")
      [] validator = "Pattern" ->
            IF value.s # <<>> /\ \A i \in 1..Len(value.s) : value.s[i] \in Lower
            THEN Valid(value) ELSE Invalid("AssertionError", "")
      [] validator = "IntMin" ->
            IF value.s = <<>> \/ \E i \in 1..Len(value.s) : ~IsDigit(value.s[i])
            THEN Invalid("ValueError", "")
            ELSE IF int(value.s) >= MinAge THEN Valid(Integer(int(value.s)))
            ELSE Invalid("AssertionError", "")
      [] validator = "Taken" ->
            IF value.s = Alec THEN Invalid("ValidationError", "Alec is taken.")
            ELSE Valid(value)

Names == {"name", "age"}

\* Field(name, aspect, message); the message names the aspect that failed.
Field(name, validator) ==
    [name |-> name, aspect |-> validator, message |-> validator \o " failed."]

\* Form.add(name, aspect, message)
add(fields, name, validator) == Append(fields, Field(name, validator))

\* A name with no entry in the posted data or in context.fields
Absent == [int |-> FALSE, s |-> <<"?">>, n |-> 0]
\* data.get(name, '')
dataGet(data, name) == IF data[name] = Absent THEN Text(<<>>) ELSE data[name]

\* Context(form, data): nothing validated, no value and no error for any name.
\* An error list is never left empty by validate, so the empty list stands
\* for a name without an entry in context.errors.
Context(data) ==
    [data |-> data, fields |-> [n \in Names |-> Absent],
     errors |-> [n \in Names |-> <<>>], validated |-> <<>>]

\* The body of the loop of Form.validate, for one field
validateField(context, field) ==
    LET name == field.name
        value == dataGet(context.data, name)
        r == apply(field.aspect, value)
        seen == [context EXCEPT !.validated = Append(@, field),
                                !.fields[name] = value]
    IN CASE r.exc = "none" -> [seen EXCEPT !.fields[name] = r.value]
         [] r.exc = "ValidationError" ->
                [seen EXCEPT !.errors[name] = Append(@, r.text)]
         [] OTHER -> [seen EXCEPT !.errors[name] = Append(@, field.message)]

RECURSIVE validateFrom(_, _)
validateFrom(context, fields) ==
    IF fields = <<>> THEN context
    ELSE validateFrom(validateField(context, Head(fields)), Tail(fields))

RECURSIVE validateUntilError(_, _)
validateUntilError(context, fields) ==
    IF fields = <<>> \/ \E n \in Names : context.errors[n] # <<>> THEN context
    ELSE validateUntilError(validateField(context, Head(fields)), Tail(fields))

\* A mutant of validate: the first failure ends the validation.
validateStopsAtError(fields, data) == validateUntilError(Context(data), fields)

\* Form.validate(data)
validate(fields, data) == validateFrom(Context(data), fields)

\* The posted values tried for each name.
Posted == {Absent, Text(Alec), Text(Alecthomas), Text(Twelve), Text(Eighteen)}

\* form.add(name, aspect, message)
FormAdd(name, validator) ==
    /\ Len(formFields) < MaxFields
    /\ formFields' = add(formFields, name, validator)
    /\ flast' = [op |-> "add", context |-> Context([n \in Names |-> Absent])]
    /\ UNCHANGED exceptForm

\* context = form.validate(data)
FormValidate(data) ==
    /\ flast' = [op |-> "validate", context |-> validate(formFields, data)]
    /\ UNCHANGED <<formFields, exceptForm>>

\* Form('user'): no fields yet
FormInit ==
    /\ formFields = <<>>
    /\ flast = [op |-> "init", context |-> Context([n \in Names |-> Absent])]

----------------------------------------------------------------------------
(* Flags (flam/flags.py): the parser of the tests, with --test defined *)

\* Strings are sequences of characters here as well.
Whitespace == {" ", "\n"}

RECURSIVE lstrip(_)
lstrip(s) == IF s # <<>> /\ Head(s) \in Whitespace THEN lstrip(Tail(s)) ELSE s

RECURSIVE rstrip(_)
rstrip(s) ==
    IF s # <<>> /\ s[Len(s)] \in Whitespace
    THEN rstrip(SubSeq(s, 1, Len(s) - 1)) ELSE s

\* s.strip()
strip(s) == rstrip(lstrip(s))

\* s.startswith(prefix)
startswith(s, prefix) ==
    Len(s) >= Len(prefix) /\ SubSeq(s, 1, Len(prefix)) = prefix

\* s.find(c) + 1: the place of the first c in s, 0 when there is none
find(s, c) ==
    IF \E i \in 1..Len(s) : s[i] = c
    THEN CHOOSE i \in 1..Len(s) : s[i] = c /\ \A j \in 1..(i - 1) : s[j] # c
    ELSE 0

\* s.split(c, 1)
split(s, c) ==
    IF find(s, c) = 0 THEN <<s>>
    ELSE <<SubSeq(s, 1, find(s, c) - 1), SubSeq(s, find(s, c) + 1, Len(s))>>

RECURSIVE Reverse(_)
Reverse(s) == IF s = <<>> THEN <<>> ELSE Append(Reverse(Tail(s)), Head(s))

RECURSIVE _load_flags_from(_, _)
\* The loop of _load_flags over the lines left, with the args built so far.
_load_flags_from(lines, args) ==
    IF lines = <<>> THEN [exc |-> "none", args |-> args]
    ELSE LET line == strip(Head(lines)) IN
         IF line = <<>> \/ startswith(line, <<"#">>)
         THEN _load_flags_from(Tail(lines), args)
         ELSE IF Len(split(line, "=")) # 2
         THEN [exc |-> "ValueError", args |-> <<>>]
         ELSE _load_flags_from(Tail(lines),
                Append(args, <<"-", "-">> \o strip(split(line, "=")[1])
                             \o <<"=">> \o strip(split(line, "=")[2])))

\* FlagParser._load_flags(file)
_load_flags(file) == _load_flags_from(file, <<>>)

\* FlagParser._flag_loader: each arg is inserted at the head of parser.rargs.
_flag_loader(rargs, file) ==
    LET loaded == _load_flags(file) IN
    [exc |-> loaded.exc,
     rargs |-> IF loaded.exc = "none" THEN Reverse(loaded.args) \o rargs ELSE rargs]

\* The values of optparse.Values: absent, None or an int.
Unset == [set |-> FALSE, none |-> FALSE, n |-> 0]
NoneFlag == [set |-> TRUE, none |-> TRUE, n |-> 0]
IntFlag(n) == [set |-> TRUE, none |-> FALSE, n |-> n]

Dests == {"test", "config"}
DefaultTest == 9     \* add_option('--test', type=int, default=9)
\* parser.get_default_values(); defined: --test has been defined
Defaults(defined) ==
    [test |-> IF defined THEN IntFlag(DefaultTest) ELSE Unset, config |-> NoneFlag]
NoFlags == [d \in Dests |-> Unset]

\* The long options of the parser: --help, --config and, once defined, --test.
OptHelp == <<"-", "-", "h", "e", "l", "p">>
OptConfig == <<"-", "-", "c", "o", "n", "f", "i", "g">>
OptTest == <<"-", "-", "t", "e", "s", "t">>
LongOpts(defined) ==
    {OptHelp, OptConfig} \cup (IF defined THEN {OptTest} ELSE {})
\* The name of the one file there is.
Conf == <<"c", "o", "n", "f">>
DashDash == <<"-", "-">>

\* OptionParser._match_abbrev: the option itself or the only one it begins.
Matches(opt, defined) ==
    IF opt \in LongOpts(defined) THEN {opt}
    ELSE {o \in LongOpts(defined) : startswith(o, opt)}

RECURSIVE intRadix(_, _)
intRadix(s, radix) ==
    IF s = <<>> THEN 0
    ELSE radix * intRadix(SubSeq(s, 1, Len(s) - 1), radix) + DigitValue(s[Len(s)])

Octal == 8
Decimal == 10
\* optparse's check of a type=int value: decimal digits, or octal ones after
\* a leading 0 (signs and the 0x and 0b prefixes are not among the inputs).
RadixOf(s) == IF s[1] = "0" THEN Octal ELSE Decimal
IsInt(s) ==
    /\ s # <<>>
    /\ \A i \in 1..Len(s) : IsDigit(s[i]) /\ DigitValue(s[i]) < RadixOf(s)

Parsed(exc, values, largs) == [exc |-> exc, values |-> values, args |-> largs]

RECURSIVE _process_args(_, _, _, _, _)
\* OptionParser._process_args, with interspersed arguments allowed
_process_args(rargs, largs, values, file, defined) ==
    IF rargs = <<>> THEN Parsed("none", values, largs)
    ELSE LET arg == Head(rargs) IN
    IF arg = DashDash THEN Parsed("none", values, largs \o Tail(rargs))
    ELSE IF startswith(arg, DashDash)
    THEN LET parts == split(arg, "=")
             explicit == Len(parts) = 2
             rest == IF explicit THEN <<parts[2]>> \o Tail(rargs) ELSE Tail(rargs)
             matches == Matches(parts[1], defined)
         IN IF Cardinality(matches) # 1 THEN Parsed("SystemExit", values, largs)
            ELSE LET opt == CHOOSE o \in matches : TRUE IN
            IF opt = OptHelp THEN Parsed("SystemExit", values, largs)
            ELSE IF rest = <<>> THEN Parsed("SystemExit", values, largs)
            ELSE IF opt = OptTest
            THEN IF IsInt(Head(rest))
                 THEN _process_args(Tail(rest), largs,
                        [values EXCEPT !.test =
                            IntFlag(intRadix(Head(rest), RadixOf(Head(rest))))],
                        file, defined)
                 ELSE Parsed("SystemExit", values, largs)
            ELSE IF Head(rest) # Conf THEN Parsed("IOError", values, largs)
            ELSE LET loaded == _flag_loader(Tail(rest), file) IN
                 IF loaded.exc # "none" THEN Parsed(loaded.exc, values, largs)
                 ELSE _process_args(loaded.rargs, largs, values, file, defined)
    ELSE IF Len(arg) > 1 /\ Head(arg) = "-"
    THEN Parsed("SystemExit", values, largs)
    ELSE _process_args(Tail(rargs), Append(largs, arg), values, file, defined)

\* parser.parse_args(args)
OptionParser_parse_args(args, file, defined) ==
    _process_args(args, <<>>, Defaults(defined), file, defined)

\* flags.__dict__.update(options.__dict__)
update(flags, values) ==
    [d \in Dests |-> IF values[d].set THEN values[d] ELSE flags[d]]

\* A mutant of parse_args: the flags are left among the returned arguments.
parse_argsKeepsFlags(args, file, flags, defined) ==
    LET parsed == OptionParser_parse_args(args, file, defined) IN
    [exc |-> parsed.exc, args |-> args,
     flags |-> IF parsed.exc = "none" THEN update(flags, parsed.values) ELSE flags]

\* flags.parse_args(args), on the global flags
parse_args(args, file, flags, defined) ==
    LET parsed == OptionParser_parse_args(args, file, defined) IN
    IF parsed.exc # "none" THEN [exc |-> parsed.exc, args |-> <<>>, flags |-> flags]
    ELSE [exc |-> "none", args |-> parsed.args,
          flags |-> update(flags, parsed.values)]

\* The words of the command lines tried.
Moo == <<"m", "o", "o">>
Bar == <<"b", "a", "r">>
TestIsOne == <<"-", "-", "t", "e", "s", "t", "=", "1">>
TestIsTwo == <<"-", "-", "t", "e", "s", "t", "=", "2">>
Words == {Moo, Bar, TestIsOne, TestIsTwo}
CommandLines == UNION {[1..n -> Words] : n \in 0..MaxArgs}

\* The command lines that load the file.
ConfigLines ==
    {<<OptConfig, Conf>>, <<TestIsOne, OptConfig, Conf>>,
     <<OptConfig, Conf, TestIsOne>>, <<Moo, OptConfig, Conf, Bar>>}

\* The lines the file is written from.
BlankLine == <<"\n">>
SpacesLine == <<" ", " ", "\n">>
CommentLine == <<" ", " ", " ", " ", " ", " ", " ", " ", "#", " ", "t", "h", "i", "s", " ", "i", "s", " ", "a", " ", "c", "o", "m", "m", "e", "n", "t", "\n">>
TestLine == <<" ", " ", " ", " ", " ", " ", " ", " ", "t", "e", "s", "t", " ", "=", " ", "9", "9", "\n">>
TightLine == <<"t", "e", "s", "t", "=", "7", "\n">>
Lines == {BlankLine, SpacesLine, CommentLine, TestLine, TightLine}
Files == UNION {[1..n -> Lines] : n \in 0..MaxLines}

GCalled(op, args, exc, returned) ==
    [op |-> op, args |-> args, exc |-> exc, returned |-> returned]

\* print >> fd, ...; fd.flush()
WriteFile(file) ==
    /\ configFile' = file
    /\ glast' = GCalled("write", <<>>, "none", <<>>)
    /\ UNCHANGED <<flagValues, testDefined, exceptFlags>>

\* flag('--test', type=int, default=9)
DefineFlag ==
    /\ testDefined' = TRUE
    /\ glast' = GCalled("flag", <<>>, "none", <<>>)
    /\ UNCHANGED <<configFile, flagValues, exceptFlags>>

\* flags.parse_args(args)
ParseArgs(args) ==
    LET r == parse_args(args, configFile, flagValues, testDefined) IN
    /\ flagValues' = r.flags
    /\ glast' = GCalled("parse", args, r.exc, r.args)
    /\ UNCHANGED <<configFile, testDefined, exceptFlags>>

\* parser = FlagParser(), flags = optparse.Values() and the
\* NamedTemporaryFile still empty
FlagsInit ==
    /\ configFile = <<>>
    /\ testDefined = FALSE
    /\ flagValues = NoFlags
    /\ glast = GCalled("init", <<>>, "none", <<>>)

----------------------------------------------------------------------------
(* to_list (flam/util.py) *)

RECURSIVE splitAll(_, _)
\* value.split(sep), for a separator of one character
splitAll(s, sep) ==
    IF find(s, sep) = 0 THEN <<s>>
    ELSE <<SubSeq(s, 1, find(s, sep) - 1)>>
         \o splitAll(SubSeq(s, find(s, sep) + 1, Len(s)), sep)

\* The arguments of to_list: a string, None, False or a list of numbers.
StringValue(s) == [kind |-> "str", s |-> s, items |-> <<>>]
NoneArg == [kind |-> "None", s |-> <<>>, items |-> <<>>]
FalseArg == [kind |-> "False", s |-> <<>>, items |-> <<>>]
ListValue(items) == [kind |-> "list", s |-> <<>>, items |-> items]

\* A list returned by to_list: of strings, or of the numbers it was given.
Strings(strs) == [strs |-> strs, ints |-> <<>>]
Numbers(ints) == [strs |-> <<>>, ints |-> ints]

\* filter(None, items): the items that are true (not '' and not 0)
filterNone(items) ==
    [strs |-> SelectSeq(items.strs, LAMBDA item : item # <<>>),
     ints |-> SelectSeq(items.ints, LAMBDA item : item # 0)]

\* to_list(value, sep, keep_empty)
to_list(value, sep, keep_empty) ==
    LET items ==
            IF value.kind = "str"
            THEN Strings([i \in 1..Len(splitAll(value.s, sep)) |->
                            strip(splitAll(value.s, sep)[i])])
            ELSE Numbers(value.items)
    IN IF ~keep_empty THEN filterNone(items) ELSE items

\* The strings, separators and lists tried.
Chars == {"a", ",", ":", " "}
Seps == {",", ":"}
Elements == 0..MaxElement
StringValues == {StringValue(s) : s \in UNION {[1..n -> Chars] : n \in 0..MaxChars}}
ListValues == {ListValue(l) : l \in UNION {[1..n -> Elements] : n \in 0..MaxItems}}
ToListValues == StringValues \cup ListValues \cup {NoneArg, FalseArg}

\* to_list(value, sep, keep_empty)
ToList(value, sep, keep_empty) ==
    /\ tlast' = [op |-> "to_list", value |-> value, sep |-> sep,
                 keep_empty |-> keep_empty,
                 items |-> to_list(value, sep, keep_empty)]
    /\ UNCHANGED exceptToList

ToListInit ==
    tlast = [op |-> "init", value |-> NoneArg, sep |-> ",",
             keep_empty |-> FALSE, items |-> Strings(<<>>)]

----------------------------------------------------------------------------
(* cached_property (flam/util.py): class Test of test_cached_property *)

\* What an access returns: a number, or the cached_property object itself.
Number(n) == [descriptor |-> FALSE, n |-> n]
TheDescriptor == [descriptor |-> TRUE, n |-> 0]

\* An instance of Test: its _value and, once cached, 'value' in its __dict__.
\* Test.__init__: self._value = 0
Test == [_value |-> 0, cached |-> FALSE, value |-> 0]

\* def value(self): self._value += 1; return self._value
Test_value(instance) ==
    [instance |-> [instance EXCEPT !._value = @ + 1],
     value |-> instance._value + 1]

\* A mutant of __get__: the value is not stored on the instance.
__get__Unstored(instance) ==
    [instance |-> Test_value(instance).instance,
     value |-> Number(Test_value(instance).value)]

\* cached_property.__get__(instance, owner) for an instance:
\* setattr(instance, self.__name__, value) with __name__ = 'value'
__get__(instance) ==
    [instance |-> [Test_value(instance).instance EXCEPT
                        !.cached = TRUE, !.value = Test_value(instance).value],
     value |-> Number(Test_value(instance).value)]

\* test.value: the instance's __dict__ comes before a descriptor that has
\* no __set__; __get__ is called when the __dict__ has no 'value'.
getValue(instance) ==
    IF instance.cached
    THEN [instance |-> instance, value |-> Number(instance.value)]
    ELSE __get__(instance)

\* cached_property.__get__(None, owner)
getOnClass == TheDescriptor

CCalled(op, instance, value) == [op |-> op, instance |-> instance, value |-> value]

\* Test()
NewTest ==
    /\ Len(tests) < MaxInstances
    /\ tests' = Append(tests, Test)
    /\ clast' = CCalled("new", Len(tests) + 1, Number(0))
    /\ UNCHANGED exceptCached

\* tests[i].value
GetValue(i) ==
    LET r == getValue(tests[i]) IN
    /\ tests' = [tests EXCEPT ![i] = r.instance]
    /\ clast' = CCalled("get", i, r.value)
    /\ UNCHANGED exceptCached

\* Test.value
GetOnClass ==
    /\ clast' = CCalled("class", 0, getOnClass)
    /\ UNCHANGED <<tests, exceptCached>>

\* class Test defined, no instance yet
CachedInit ==
    /\ tests = <<>>
    /\ clast = CCalled("init", 0, Number(0))

----------------------------------------------------------------------------
(* Application.__call__ (flam/web/core.py) *)

Methods == {"GET", "POST"}
\* The values of the form_token cookie and of the __FORM_TOKEN field.
Tokens == {"one", "two"}
\* cookies / form.get without that entry
NoToken == "None"
\* The keys generate_key() may come up with: any one, a posted one included.
GeneratedKeys == {"one", "fresh"}
\* The paths requested: '/' (routed once a view is exposed) and one with no rule.
Paths == {"/", "/nothing"}
\* What the view does: returns a genshi Stream, returns a Response, calls
\* flash() and returns a Response, or raises an HTTPException (a redirect).
Views == {"stream", "response", "flash", "redirect"}

BadRequestStatus == 400
NotFoundStatus == 404
RedirectStatus == 302
OkStatus == 200
InvalidFormToken == "Invalid form token, do you have cookies enabled?"

\* Request.form_token
form_token(cookie, generated) == IF cookie # NoToken THEN cookie ELSE generated

\* A mutant of the check: a request without the field passes.
csrfRejectsWrongField(method, field, session_form_token) ==
    method = "POST" /\ field # NoToken /\ field # session_form_token

\* request.method == 'POST' and form_token != session_form_token
csrfRejects(method, field, session_form_token) ==
    method = "POST" /\ field # session_form_token

Answer(status, body, invoked, saved, store) ==
    [status |-> status, body |-> body, invoked |-> invoked, saved |-> saved,
     store |-> store]

\* Application.__call__: store is the saved session (saved: it is in the
\* session store; flash: it holds a flash_message), sid the session cookie.
Application_call(method, path, cookie, field, generated, sid, view, store, url_map) ==
    LET session_form_token == form_token(cookie, generated)
        \* _create_session(): the stored session, or a new and empty one
        hasFlash == sid /\ store.saved /\ store.flash
    IN IF csrfRejects(method, field, session_form_token)
       THEN Answer(BadRequestStatus, InvalidFormToken, FALSE, FALSE, store)
       ELSE IF path \notin url_map
       THEN Answer(NotFoundStatus, "Not Found", FALSE, FALSE, store)
       ELSE IF view = "redirect"
       THEN Answer(RedirectStatus, "Redirecting", TRUE, FALSE, store)
       ELSE LET \* del session['flash_message'] and session['flash_message'] = ...
                \* both modify the session
                flashed == view = "flash" \/ (view = "response" /\ hasFlash)
                should_save == hasFlash \/ flashed
            IN Answer(OkStatus, view, TRUE, should_save,
                      IF should_save THEN [saved |-> TRUE, flash |-> flashed]
                      ELSE store)

WCalled(op, method, field, token, routed, answer) ==
    [op |-> op, method |-> method, field |-> field, token |-> token,
     routed |-> routed, status |-> answer.status, body |-> answer.body,
     invoked |-> answer.invoked, saved |-> answer.saved]

NoAnswer == Answer(0, "", FALSE, FALSE, [saved |-> FALSE, flash |-> FALSE])

\* @expose('/') on a view function
Expose(path) ==
    /\ routes' = routes \cup {path}
    /\ wlast' = WCalled("expose", "", NoToken, NoToken, FALSE, NoAnswer)
    /\ UNCHANGED <<sessionStore, exceptWeb>>

\* One request served by the application.
Serve(method, path, cookie, field, generated, sid, view) ==
    LET answer == Application_call(method, path, cookie, field, generated, sid,
                                   view, sessionStore, routes)
    IN /\ sessionStore' = answer.store
       /\ wlast' = WCalled("request", method, field, form_token(cookie, generated),
                           path \in routes, answer)
       /\ UNCHANGED <<routes, exceptWeb>>

\* wsgi_application(): no view exposed, nothing in the session store
WebInit ==
    /\ routes = {}
    /\ sessionStore = [saved |-> FALSE, flash |-> FALSE]
    /\ wlast = WCalled("init", "", NoToken, NoToken, FALSE, NoAnswer)

----------------------------------------------------------------------------
(* ThreadPool (flam.py) *)

\* The functions passed to add.
Jobs == {"f", "g"}
\* The threads of the pool: ThreadPool(threads=Threads)
Workers == 1..Threads

\* threading.Thread(target=self._worker): a thread object that has been
\* constructed.  It runs _worker once start() is called on it, and nothing
\* in ThreadPool calls start().
Constructed == "initial"
Started == "started"
Finished == "stopped"

\* The message add() puts on the queue; id tells the calls of add apart.
Message(id, job) == [id |-> id, job |-> job, quit |-> FALSE]

\* The stop sentinel quit() puts on the queue: None
Sentinel == [id |-> 0, job |-> "None", quit |-> TRUE]

\* The methods of Queue.Queue; self._queue is one.
QueueMethods ==
    {"qsize", "empty", "full", "put", "put_nowait", "get", "get_nowait",
     "task_done", "join"}

\* getattr(self._queue, name)
queueGetattr(name) == IF name \in QueueMethods THEN "none" ELSE "AttributeError"

\* ThreadPool.quit(): its first statement is self._queue.clear().  When that
\* lookup raises, nothing else of quit runs; otherwise the queue is emptied
\* and one sentinel per thread is put on it.
quit(q, threads) ==
    IF queueGetattr("clear") # "none"
    THEN [exc |-> queueGetattr("clear"), queue |-> q]
    ELSE [exc |-> "none", queue |-> [t \in threads |-> Sentinel]]

PCalledPool(op, exc) == [op |-> op, exc |-> exc]

\* ThreadPool.add(function)
ThreadPoolAdd(job) ==
    /\ added < MaxJobs
    /\ added' = added + 1
    /\ queue' = Append(queue, Message(added + 1, job))
    /\ poolLast' = PCalledPool("add", "none")
    /\ UNCHANGED <<pool, executed, exceptPool>>

\* ThreadPool.quit()
Quit ==
    LET r == quit(queue, Workers) IN
    /\ queue' = r.queue
    /\ poolLast' = PCalledPool("quit", r.exc)
    /\ UNCHANGED <<pool, executed, added, exceptPool>>

\* One turn of the loop of ThreadPool._worker in thread t: take a message
\* from the queue and run its job, or return when the message is None.
\* Only a running thread takes a turn.
Worker(t) ==
    /\ pool[t] = Started
    /\ queue # <<>>
    /\ queue' = Tail(queue)
    /\ IF Head(queue).quit
       THEN pool' = [pool EXCEPT ![t] = Finished] /\ UNCHANGED executed
       ELSE executed' = [executed EXCEPT ![Head(queue).id] = @ + 1]
            /\ UNCHANGED pool
    /\ UNCHANGED <<added, poolLast, exceptPool>>

\* ThreadPool(threads): an empty Queue and the threads constructed
PoolInit ==
    /\ queue = <<>>
    /\ pool = [t \in Workers |-> Constructed]
    /\ executed = [id \in 1..MaxJobs |-> 0]
    /\ added = 0
    /\ poolLast = PCalledPool("init", "none")

----------------------------------------------------------------------------
(* FlagParser commands (flam.py) *)

\* The words of the command lines and of the function names, as strings of
\* characters.
HelpName == <<"h", "e", "l", "p">>
UserName == <<"u", "s", "e", "r">>
NewName == <<"n", "e", "w">>
CommandWords == {HelpName, UserName, NewName}

\* A Python function: its __name__ and what inspect.getargspec reports of
\* it (the names of its parameters, how many of them have defaults, and
\* whether it takes *varargs and **keywords).
Def(name, params, defaults, varargs, keywords) ==
    [__name__ |-> name, args |-> params, defaults |-> defaults,
     varargs |-> varargs, keywords |-> keywords]

\* def help(): ...
help == Def(HelpName, <<>>, 0, FALSE, FALSE)
\* def user(*names): ...
user == Def(UserName, <<>>, 0, TRUE, FALSE)
\* def user_new(name, role='guest'): ...
user_new == Def(UserName \o <<"_">> \o NewName, <<"name", "role">>, 1, FALSE, FALSE)
\* def new(**options): ...
new == Def(NewName, <<>>, 0, FALSE, TRUE)
CommandFunctions == {help, user, user_new, new}
NoFunction == Def(<<>>, <<>>, 0, FALSE, FALSE)

\* The characters of those names in the order of their codes.
Alphabet == <<"_", "e", "h", "l", "n", "p", "r", "s", "u", "w">>
Ord(c) == CHOOSE i \in 1..Len(Alphabet) : Alphabet[i] = c

RECURSIVE strLess(_, _)
\* a < b for two strings
strLess(a, b) ==
    IF a = <<>> THEN b # <<>>
    ELSE IF b = <<>> THEN FALSE
    ELSE IF Head(a) = Head(b) THEN strLess(Tail(a), Tail(b))
    ELSE Ord(Head(a)) < Ord(Head(b))

RECURSIVE tupleLess(_, _)
\* a < b for two tuples of strings
tupleLess(a, b) ==
    IF a = <<>> THEN b # <<>>
    ELSE IF b = <<>> THEN FALSE
    ELSE IF Head(a) = Head(b) THEN tupleLess(Tail(a), Tail(b))
    ELSE strLess(Head(a), Head(b))

RECURSIVE sortedKeys(_)
\* The keys of sorted(self._commands.iteritems()), in that order.
sortedKeys(keys) ==
    IF keys = {} THEN <<>>
    ELSE LET least == CHOOSE k \in keys : \A j \in keys \ {k} : tupleLess(k, j)
         IN <<least>> \o sortedKeys(keys \ {least})

\* args[:n] and args[n:]
upTo(args, n) == SubSeq(args, 1, IF n < Len(args) THEN n ELSE Len(args))
from(args, n) == SubSeq(args, n + 1, Len(args))

\* self._commands = {} (flam.py:120)
NoCommands == [k \in {} |-> NoFunction]

\* self._commands[tuple(function.__name__.split('_'))] = function
register_command(registered, function) ==
    LET key == splitAll(function.__name__, "_")
    IN [k \in DOMAIN registered \cup {key} |->
            IF k = key THEN function ELSE registered[k]]

RECURSIVE matchFrom(_, _, _, _, _)
\* The loop of dispatch_command over the sorted commands from keys on:
\* the command matched and the length of its name when the loop ends.
matchFrom(keys, registered, args, matched_command, longest_match) ==
    IF keys = <<>>
    THEN [matched_command |-> matched_command, longest_match |-> longest_match]
    ELSE LET command_args == Head(keys)
             command_length == Len(command_args)
         IN IF /\ upTo(args, command_length) = command_args
               /\ command_length > longest_match
            THEN matchFrom(Tail(keys), registered, args,
                           registered[command_args], command_length)
            ELSE matchFrom(Tail(keys), registered, args,
                           matched_command, longest_match)

\* What a call of dispatch_command does: the exception it raises or the
\* value it returns, and the command it invoked with its arguments.
Dispatched(exc, returned, invoked, passed) ==
    [exc |-> exc, returned |-> returned, invoked |-> invoked, passed |-> passed]
RaisedBy(exc) == Dispatched(exc, "none", NoFunction, <<>>)

\* A mutant of the checks below: any number of arguments is let through.
invokeUnchecked(matched_command, rest) ==
    IF matched_command.keywords THEN RaisedBy("ValueError")
    ELSE LET func_arg_length == Len(matched_command.args)
             short == /\ func_arg_length > 0
                      /\ Len(rest) + matched_command.defaults < func_arg_length
             taken == IF func_arg_length > 0 THEN upTo(rest, func_arg_length) ELSE <<>>
             left == IF func_arg_length > 0 THEN from(rest, func_arg_length) ELSE rest
             command_args == IF matched_command.varargs THEN taken \o left ELSE taken
         IN IF short THEN RaisedBy("CommandError")
            ELSE Dispatched("none", "True", matched_command, rest)

\* What dispatch_command does once a command is matched: the checks of
\* its arguments against the command's argspec, and the call.
invoke(matched_command, rest) ==
    IF matched_command.keywords THEN RaisedBy("ValueError")
    ELSE LET func_arg_length == Len(matched_command.args)
             short == /\ func_arg_length > 0
                      /\ Len(rest) + matched_command.defaults < func_arg_length
             taken == IF func_arg_length > 0 THEN upTo(rest, func_arg_length) ELSE <<>>
             left == IF func_arg_length > 0 THEN from(rest, func_arg_length) ELSE rest
             command_args == IF matched_command.varargs THEN taken \o left ELSE taken
         IN IF short THEN RaisedBy("CommandError")
            ELSE IF ~matched_command.varargs /\ left # <<>> THEN RaisedBy("CommandError")
            ELSE Dispatched("none", "True", matched_command, command_args)

dispatch_command(registered, args) ==
    IF Cardinality(DOMAIN registered) = 1
    THEN Dispatched("none", "False", NoFunction, <<>>)
    ELSE IF args = <<>> THEN RaisedBy("CommandError")
    ELSE LET m == matchFrom(sortedKeys(DOMAIN registered), registered, args,
                            NoFunction, 0)
         IN IF m.matched_command = NoFunction THEN RaisedBy("CommandError")
            ELSE invoke(m.matched_command, from(args, m.longest_match))

\* The command lines dispatched.
RECURSIVE ArgsOfLen(_)
ArgsOfLen(n) ==
    IF n = 0 THEN {<<>>}
    ELSE {Append(a, w) : a \in ArgsOfLen(n - 1), w \in CommandWords}
ArgLists == UNION {ArgsOfLen(n) : n \in 0..MaxWords}

DCalled(op, args, r) == [op |-> op, args |-> args, r |-> r]
NothingDispatched == Dispatched("none", "none", NoFunction, <<>>)

\* flag_parser.register_command(function), also the decorator @command
RegisterCommand(function) ==
    /\ commands' = register_command(commands, function)
    /\ dlast' = DCalled("register_command", <<>>, NothingDispatched)
    /\ UNCHANGED exceptCommand

\* flag_parser.dispatch_command(args)
DispatchCommand(args) ==
    /\ dlast' = DCalled("dispatch_command", args, dispatch_command(commands, args))
    /\ UNCHANGED <<commands, exceptCommand>>

CommandInit ==
    /\ commands = NoCommands
    /\ dlast = DCalled("init", <<>>, NothingDispatched)

Init == BrokerInit /\ AdapterInit /\ SignalInit /\ AspectInit /\ FormInit /\ FlagsInit /\ ToListInit /\ CachedInit /\ WebInit /\ PoolInit /\ CommandInit

\* Any call on any key.
Next ==
    \/ \E k \in Keys, what \in Whats : Provide(k, what, FALSE)
    \/ \E k \in Keys, what \in Whats : AppendTo(k, what, FALSE)
    \/ \E k \in Keys, sequence \in Iterables : Extend(k, sequence, FALSE)
    \/ \E k \in Keys, element \in Whats \cup {None} : Remove(k, element, FALSE)
    \/ \E k \in Keys : Require(k)
    \/ \E k \in Keys, instance \in BOOLEAN : Get(k, instance)

Spec == Init /\ [][Next]_vars

\* The calls made on one key, with the history recorded.
NextHistory ==
    \/ \E what \in Whats : Provide(HistoryKey, what, TRUE)
    \/ \E what \in Whats : AppendTo(HistoryKey, what, TRUE)
    \/ \E sequence \in Iterables : Extend(HistoryKey, sequence, TRUE)
    \/ \E element \in Whats \cup {None} : Remove(HistoryKey, element, TRUE)
    \/ Require(HistoryKey)
    \/ \E instance \in BOOLEAN : Get(HistoryKey, instance)

SpecHistory == Init /\ [][NextHistory]_vars

\* The calls made on an Adapter.
NextAdapter ==
    \/ \E call \in AdaptsCalls : Adapts(call[1], call[2], call[3])
    \/ \E from_ \in Types, to \in Tos : AdapterRemove(from_, to)
    \/ \E cls \in Types, to \in Tos : Adapt(cls, to)

SpecAdapter == Init /\ [][NextAdapter]_vars

\* The calls made on a Signal and on a Callback.
NextSignal ==
    \/ \E callback \in Functions : Connect(callback)
    \/ \E arg \in Args : SignalCall(arg)
    \/ \E callback \in Functions : Disconnect(callback)
    \/ \E function \in Functions : Bind(function)
    \/ \E function \in Functions : Unbind(function)
    \/ \E arg \in Args : Emit(arg)
    \/ \E must_be_bound \in BOOLEAN : NewCallback(must_be_bound)

SpecSignal == Init /\ [][NextSignal]_vars

NextAspect ==
    \/ \E attributes \in Attributes : Construct(attributes)
    \/ \E key \in Attrs : GetAttr(key)
    \/ \E key \in Attrs, value \in Values : SetAttr(key, value)
    \/ \E key \in Attrs, arg \in Targets : CallAttr(key, arg)

SpecAspect == Init /\ [][NextAspect]_vars

NextForm ==
    \/ \E name \in Names, validator \in Aspects : FormAdd(name, validator)
    \/ \E data \in [Names -> Posted] : FormValidate(data)

SpecForm == Init /\ [][NextForm]_vars

NextFlags ==
    \/ DefineFlag
    \/ \E args \in CommandLines : ParseArgs(args)

SpecFlags == Init /\ [][NextFlags]_vars

NextConfig ==
    \/ DefineFlag
    \/ \E file \in Files : WriteFile(file)
    \/ \E args \in ConfigLines : ParseArgs(args)

SpecConfig == Init /\ [][NextConfig]_vars

NextToList ==
    \E value \in ToListValues, sep \in Seps, keep_empty \in BOOLEAN :
        ToList(value, sep, keep_empty)

SpecToList == Init /\ [][NextToList]_vars

NextCached ==
    \/ NewTest
    \/ \E i \in 1..Len(tests) : GetValue(i)
    \/ GetOnClass

SpecCached == Init /\ [][NextCached]_vars

NextWeb ==
    \/ Expose("/")
    \/ \E method \in Methods, path \in Paths, cookie \in Tokens \cup {NoToken},
          field \in Tokens \cup {NoToken}, generated \in GeneratedKeys,
          sid \in BOOLEAN, view \in Views :
            Serve(method, path, cookie, field, generated, sid, view)

SpecWeb == Init /\ [][NextWeb]_vars

NextPool ==
    \/ \E job \in Jobs : ThreadPoolAdd(job)
    \/ Quit

\* The scheduler lets every running thread take its turns.
PoolFairness == \A t \in Workers : WF_vars(Worker(t))

SpecPool == Init /\ [][NextPool]_vars /\ PoolFairness

----------------------------------------------------------------------------
(* The commands of a FlagParser alone *)

NextCommand ==
    \/ \E function \in CommandFunctions : RegisterCommand(function)
    \/ \E args \in ArgLists : DispatchCommand(args)

SpecCommand == Init /\ [][NextCommand]_vars

----------------------------------------------------------------------------
(* Properties of the FeatureBroker *)

Registered(k) == k \in DOMAIN features
IsSingleton(k) == Registered(k) /\ ~isSequence(features[k])
IsSequence(k) == Registered(k) /\ isSequence(features[k])

\* C1, as stated: a key's classification cannot change once established: a
\* key first registered as a singleton is never held as a sequence, and a key
\* first registered as a sequence is never held as a singleton.
C1_ClassificationFixedForever ==
    \A k \in Keys :
        (Registered(k) /\ first[k] # "none") => Kind(features[k]) = first[k]

\* C1, amended: no call changes the classification of a key that is
\* registered before and after the call; only after remove has unregistered
\* the key can it be registered anew with the other classification.
C1_ClassificationFixedWhileRegistered ==
    [][\A k \in Keys :
          (k \in DOMAIN features /\ k \in DOMAIN features')
              => Kind(features'[k]) = Kind(features[k])]_vars

\* C1 witness: a provide on a key held as a sequence of two was rejected.
C1_Witness ==
    /\ IsSequence(HistoryKey)
    /\ Len(features[HistoryKey].items) = 2
    /\ last.op = "provide" /\ last.key = HistoryKey /\ last.exc = "Error"

IsDeferredCounter(what) == what.deferred /\ what.v = "counter"
Raises(what) == what.deferred /\ what.v = "keyerr"

\* The result of the i-th of the providers whats, called in order, when the
\* counter stands at c after the last call.
ResultAt(whats, i, c) ==
    IF IsDeferredCounter(whats[i])
    THEN Counted(c - Cardinality({j \in (i + 1)..Len(whats) : IsDeferredCounter(whats[j])}))
    ELSE Obj(whats[i])

\* C2: require(k) on a sequence key built by append and extend calls alone
\* returns one result per provider, in the order of the calls (extend keeping
\* the iterable's order), nothing dropped or duplicated.
C2_RequireInCallOrder ==
    \A k \in Keys :
        (/\ last.op = "require" /\ last.key = k
         /\ IsSequence(k) /\ log[k].pure
         /\ \A i \in 1..Len(log[k].whats) : ~Raises(log[k].whats[i]))
        => /\ last.exc = "none"
           /\ last.list
           /\ Len(last.ret) = Len(log[k].whats)
           /\ \A i \in 1..Len(log[k].whats) :
                  last.ret[i] = ResultAt(log[k].whats, i, count)

\* C2 witness: a require returned two different results of a sequence built
\* by append and extend alone.
C2_Witness ==
    /\ last.op = "require" /\ last.key = HistoryKey /\ last.exc = "none"
    /\ IsSequence(HistoryKey) /\ log[HistoryKey].pure
    /\ Len(last.ret) = 2
    /\ last.ret[1] # last.ret[2]
    /\ log[HistoryKey].whats[1] # log[HistoryKey].whats[2]

\* C3: provide on a registered key, and append or extend with a non-empty
\* iterable on a singleton key, raise Error and leave the registry as it was.
C3_RedeclarationRejected ==
    [][\A k \in Keys :
          (/\ last'.key = k
           /\ k \in DOMAIN features
           /\ \/ last'.op = "provide"
              \/ /\ ~isSequence(features[k])
                 /\ \/ last'.op = "append"
                    \/ last'.op = "extend" /\ last'.list)
          => (last'.exc = "Error" /\ features' = features)]_vars

\* C3 witness: a non-empty extend on a singleton key was rejected while the
\* other key holds a sequence.
C3_Witness ==
    /\ last.op = "extend" /\ last.list /\ last.exc = "Error"
    /\ IsSingleton(last.key)
    /\ \E j \in Keys \ {last.key} : IsSequence(j)

\* C4, as stated: require(k) raises UnknownFeature exactly when k is not
\* registered (require leaves the registry alone, so the registry after the
\* call is the registry the call saw); the same for a Require attribute.
C4_UnknownFeatureIffUnregistered ==
    (last.op \in {"require", "get"})
        => (last.exc = "UnknownFeature" <=> ~Registered(last.key))

\* C5: registering never calls the provider; a require of a key provided as
\* deferred(counter) calls counter exactly once and returns the fresh count;
\* a require of a key provided as a plain object returns that object and
\* calls nothing.
C5_ProvidersAreLazy ==
    [][/\ last'.op \in {"provide", "append", "extend", "remove"} => count' = count
       /\ \A k \in Keys :
            (last'.op = "require" /\ last'.key = k /\ k \in DOMAIN features
             /\ ~isSequence(features[k]))
            => LET callback == features[k].items[1] IN
               /\ (callback = Callback([deferred |-> TRUE, v |-> "counter"]))
                     => /\ count' = count + 1
                        /\ last'.exc = "none"
                        /\ last'.ret = <<Counted(count + 1)>>
               /\ (callback = Callback([deferred |-> FALSE, v |-> "counter"]))
                     => /\ count' = count
                        /\ last'.exc = "none"
                        /\ last'.ret = <<Obj([deferred |-> FALSE, v |-> "counter"])>>]_vars

\* C5 witness: the second require of a deferred counter returned 2.
C5_Witness ==
    /\ last.op = "require" /\ last.exc = "none"
    /\ IsSingleton(last.key)
    /\ features[last.key].items[1].kind = "deferred"
    /\ last.ret = <<Counted(2)>>

\* C6: remove(k) without an element unregisters a registered key (the next
\* require(k) raises UnknownFeature) and leaves every other key untouched; on
\* an unregistered key it raises UnknownFeature and changes nothing.
C6_RemoveUnregisters ==
    [][\A k \in Keys :
          (last'.op = "remove" /\ ~last'.list /\ last'.key = k)
          => IF k \in DOMAIN features
             THEN /\ last'.exc = "none"
                  /\ DOMAIN features' = DOMAIN features \ {k}
                  /\ \A j \in DOMAIN features' : features'[j] = features[j]
                  /\ require(features', count', k).exc = "UnknownFeature"
             ELSE /\ last'.exc = "UnknownFeature"
                  /\ features' = features]_vars

\* C6 witness: a sequence key was removed whole while the other key stays
\* registered.
C6_Witness ==
    /\ last.op = "remove" /\ ~last.list /\ last.exc = "none"
    /\ ~Registered(last.key)
    /\ \E j \in Keys \ {last.key} : IsSequence(j) /\ Len(features[j].items) = 2

----------------------------------------------------------------------------
(* Properties of the Adapter *)

\* The classes adapts registers for a type: its mro() without object.
Registers(cls) == {mro(cls)[i] : i \in 1..Len(mro(cls))} \ {"object"}

HasAdaption(F, cls, to) == Adaption(cls, to) \in DOMAIN F

\* The adapter registered under (cls, to).
AdapterOf(F, cls, to) == F[Adaption(cls, to)].items[1].v

\* The positions in the order adapt walks whose class has an adaption.
Adapting(F, cls, to) == {i \in 1..Len(mro(cls)) : HasAdaption(F, mro(cls)[i], to)}

Least(S) == CHOOSE i \in S : \A j \in S : i <= j

\* C7, as stated: adapt(x, to) returns the result of applying to x the
\* adapter of the first class in the order walked that has an adaption to
\* `to`, and raises InvalidAdaption exactly when no class in that order has
\* one.  (adapt leaves the registry alone, so the registry after the call is
\* the one the call saw.)
C7_AdaptUsesFirstAdaption ==
    (alast.op = "adapt") =>
        LET cls == alast.from.types[1]
            has == Adapting(adaptions, cls, alast.to)
        IN IF has = {}
           THEN alast.exc = "InvalidAdaption"
           ELSE /\ alast.exc # "InvalidAdaption"
                /\ alast.exc = "none" =>
                     alast.ret = Apply([v |-> AdapterOf(adaptions, mro(cls)[Least(has)], alast.to)],
                                       cls).ret

\* What C8 says of a call adapts(T, to, f) from registry F to registry F2:
\* f is held under (C, to) for every class C the call registers, and every
\* other pair is as it was.
RegisteredFor(F, F2, cls, to, f) ==
    \A c \in Types, t \in Tos :
        IF c \in Registers(cls) /\ t = to
        THEN HasAdaption(F2, c, t) /\ AdapterOf(F2, c, t) = f
        ELSE /\ HasAdaption(F2, c, t) <=> HasAdaption(F, c, t)
             /\ HasAdaption(F, c, t) => F2[Adaption(c, t)] = F[Adaption(c, t)]

\* C8, as stated: after adapts(T, to, f) the registry holds f under (C, to)
\* for T and every class C of T's method resolution order other than object,
\* and the call registers no other pair.
C8_AdaptsRegistersMro ==
    [][(alast'.op = "adapts" /\ ~alast'.from.tuple)
          => RegisteredFor(adaptions, adaptions', alast'.from.types[1],
                           alast'.to, alast'.adapter)]_vars

\* C8, amended: adapts(T, to, f) called when no class of T's mro() other
\* than object has an adaption to `to` completes and registers f as stated;
\* called when one of them has, it raises Error and every adaption that
\* existed before the call is still what it was.
C8_AdaptsRegistersFreshMro ==
    [][(alast'.op = "adapts" /\ ~alast'.from.tuple)
          => LET cls == alast'.from.types[1] IN
             IF \A c \in Registers(cls) : ~HasAdaption(adaptions, c, alast'.to)
             THEN /\ alast'.exc = "none"
                  /\ RegisteredFor(adaptions, adaptions', cls, alast'.to, alast'.adapter)
             ELSE /\ alast'.exc = "Error"
                  /\ \A key \in DOMAIN adaptions :
                         key \in DOMAIN adaptions' /\ adaptions'[key] = adaptions[key]]_vars

\* C8 witness: adapts(B, t1, f) completed, B and its base A hold f, and
\* adaptions of other pairs are registered with other adapters.
C8_Witness ==
    /\ alast.op = "adapts" /\ alast.from = One("B") /\ alast.to = "t1"
    /\ alast.adapter = "f" /\ alast.exc = "none"
    /\ HasAdaption(adaptions, "B", "t1") /\ AdapterOf(adaptions, "B", "t1") = "f"
    /\ HasAdaption(adaptions, "A", "t1") /\ AdapterOf(adaptions, "A", "t1") = "f"
    /\ HasAdaption(adaptions, "O", "t1") /\ AdapterOf(adaptions, "O", "t1") = "g"
    /\ HasAdaption(adaptions, "A", "t2")

\* C9, as stated: once remove(T, to) has removed the adaption of T, adapt of
\* an instance of T to `to` raises InvalidAdaption.
C9_RemovedAdaptionIsInvalid ==
    (alast.op = "remove" /\ alast.exc = "none")
        => adapt(adaptions, alast.from.types[1], alast.to).exc = "InvalidAdaption"

\* C10, as stated: adapts((T1, ..., Tn), to, f), called when no class of any
\* Ti's method resolution order has an adaption to `to`, completes without
\* error, and afterwards adapt(x, to) is f(x) for an instance x of each Ti.
C10_AdaptsTupleRegistersAll ==
    [][(/\ alast'.op = "adapts" /\ alast'.from.tuple
        /\ \A i \in 1..Len(alast'.from.types) :
               Adapting(adaptions, alast'.from.types[i], alast'.to) = {})
          => /\ alast'.exc = "none"
             /\ \A i \in 1..Len(alast'.from.types) :
                    LET cls == alast'.from.types[i] IN
                    alast'.adapter # "needs" =>
                        adapt(adaptions', cls, alast'.to)
                            = Apply([v |-> alast'.adapter], cls)]_vars

----------------------------------------------------------------------------
(* Properties of Signal and Callback *)

Occurrences(seq, x) == Cardinality({i \in 1..Len(seq) : seq[i] = x})
Connected(cbs) == {cbs[i] : i \in 1..Len(cbs)}

\* The connected callbacks in the order in which they were first connected.
RECURSIVE Distinct(_)
Distinct(seq) ==
    IF seq = <<>> THEN <<>>
    ELSE LET init == Distinct(SubSeq(seq, 1, Len(seq) - 1))
             x == seq[Len(seq)]
         IN IF Occurrences(init, x) > 0 THEN init ELSE Append(init, x)

\* C11, as stated: a call of a Signal invokes every connected callback
\* exactly once, in connection order, with the call's argument, and returns
\* their return values in that order; a callback that disconnect has removed
\* is connected no more, so that no later call invokes it.
C11_SignalCallsEachOnce ==
    [][/\ slast'.op = "call" =>
            /\ \A c \in Connected(callbacks) : Occurrences(slast'.invoked, c) = 1
            /\ slast'.invoked = Distinct(callbacks)
            /\ slast'.ret = [i \in 1..Len(slast'.invoked)
                                |-> Returned(slast'.invoked[i], slast'.arg)]
       /\ (slast'.op = "disconnect" /\ slast'.exc = "none") =>
            Occurrences(signalCall(callbacks', "x").invoked, slast'.callback) = 0]_vars

\* C12, as stated: emit invokes only the most recently bound callable that
\* is still bound and returns its result; once that callable has been
\* disconnected emit invokes the one bound before it; with nothing bound emit
\* raises UnboundCallback if must_be_bound and returns None otherwise.
C12_EmitCallsLastBound ==
    [][/\ slast'.op = "emit" =>
            IF bound = <<>>
            THEN IF mustBeBound THEN slast'.exc = "UnboundCallback"
                 ELSE slast'.exc = "none" /\ slast'.invoked = <<>>
                      /\ slast'.ret = <<"None">>
            ELSE /\ slast'.exc = "none"
                 /\ slast'.invoked = <<bound[Len(bound)]>>
                 /\ slast'.ret = <<Returned(bound[Len(bound)], slast'.arg)>>
       /\ (/\ slast'.op = "unbind" /\ slast'.exc = "none"
           /\ slast'.callback = bound[Len(bound)]
           /\ \E i \in 1..Len(bound) : bound[i] # slast'.callback)
          => LET before == CHOOSE i \in 1..Len(bound) :
                               /\ bound[i] # slast'.callback
                               /\ \A j \in (i + 1)..Len(bound) : bound[j] = slast'.callback
             IN emit(bound', mustBeBound, "x").invoked = <<bound[before]>>]_vars

----------------------------------------------------------------------------
(* Properties of the aspects *)

\* What the aspect itself holds under a name: a method of its class or an
\* entry of its own __dict__ (next and the constructor's attributes).
AspectDefines(key) == key \in AspectMethods \/ aspect[key] # Missing

\* C13 as stated: a call of a method the aspect subclass defines runs the
\* aspect's method; reading any attribute the aspect does not define returns
\* the wrapped object's attribute, or raises the wrapped object's
\* AttributeError; an assignment through the aspect is stored on the wrapped
\* object and leaves the aspect's own __dict__ as it was.
C13_AspectForwardsAttributes ==
    [][/\ (plast'.op = "call" /\ plast'.key \in AspectMethods /\ aspect[plast'.key] = Missing)
            => plast'.called = "RedirectLaser." \o plast'.key
       /\ (plast'.op = "get" /\ ~AspectDefines(plast'.key))
            => LET next == wrappedGetattr(laser, plast'.key)
               IN /\ plast'.exc = next.exc
                  /\ plast'.of = next.of
                  /\ plast'.value = next.value
       /\ plast'.op = "set"
            => /\ laser'[plast'.key] = plast'.value
               /\ aspect' = aspect]_vars

\* C13 amended: as above, but a callable attribute of the wrapped object is
\* read as a proxy function, not as the attribute itself; calling the proxy
\* calls the wrapped object's attribute with the same arguments.
C13_AspectForwardsThroughProxy ==
    [][/\ (plast'.op = "call" /\ plast'.key \in AspectMethods /\ aspect[plast'.key] = Missing)
            => plast'.called = "RedirectLaser." \o plast'.key
       /\ (plast'.op = "get" /\ ~AspectDefines(plast'.key))
            => LET next == wrappedGetattr(laser, plast'.key)
               IN /\ plast'.exc = next.exc
                  /\ plast'.of = next.of
                  /\ plast'.value = IF callable(next.value)
                                    THEN Proxy(next.value) ELSE next.value
       /\ (plast'.op = "call" /\ ~AspectDefines(plast'.key))
            => LET next == wrappedGetattr(laser, plast'.key)
               IN IF next.exc # "none" THEN plast'.exc = next.exc /\ laser' = laser
                  ELSE LET r == callValue(next.value, laser, "Moon")
                       IN /\ plast'.exc = r.exc
                          /\ plast'.value = r.value
                          /\ laser' = r.laser
       /\ plast'.op = "set"
            => /\ laser'[plast'.key] = plast'.value
               /\ aspect' = aspect]_vars

\* A function assigned through the aspect sits on the wrapped object, the
\* aspect holds nothing but next, and reading it back gave a proxy.
C13_Witness ==
    /\ plast.op = "get"
    /\ plast.key = "target"
    /\ plast.value = Proxy(Fn)
    /\ laser["target"] = Fn
    /\ aspect = AspectBase(EmptyDict)

----------------------------------------------------------------------------
(* Properties of Form.validate *)

\* The fields added under a name, in add order.
FieldsOf(name) == SelectSeq(formFields, LAMBDA field : field.name = name)

\* What one field's validation of the posted data comes to.
Outcome(field, data) == apply(field.aspect, dataGet(data, field.name))

\* The message validate records for a field that failed.
MessageOf(field, data) ==
    IF Outcome(field, data).exc = "ValidationError"
    THEN Outcome(field, data).text ELSE field.message

----------------------------------------------------------------------------
(* Properties of the flags *)

\* The command line with --config FILE replaced by one --key=value for each
\* line of the file that is not blank and no comment, in the file's order.
RECURSIVE Expanded(_, _)
Expanded(args, file) ==
    IF args = <<>> THEN <<>>
    ELSE IF Head(args) = OptConfig /\ Len(args) > 1
    THEN _load_flags(file).args \o Expanded(Tail(Tail(args)), file)
    ELSE <<Head(args)>> \o Expanded(Tail(args), file)

\* C15: parsing a command line with --config FILE gives the flag values that
\* the command line gives with one --key=value in place of --config FILE for
\* each line of the file that is not blank and no comment.
C15_ConfigLinesAreFlags ==
    (glast.op = "parse" /\ glast.exc = "none")
        => flagValues = OptionParser_parse_args(Expanded(glast.args, configFile),
                                                 <<>>, testDefined).values

\* The words of a command line that are no flags.
FlagsRemoved(args) == SelectSeq(args, LAMBDA word : ~startswith(word, DashDash))

\* The values given to --test on a command line, in order.
GivenTest(args) ==
    LET given == SelectSeq(args, LAMBDA word : startswith(word, OptTest \o <<"=">>))
    IN [i \in 1..Len(given) |-> intRadix(split(given[i], "=")[2], Decimal)]

----------------------------------------------------------------------------
(* Properties of to_list *)

\* The sep-separated items of a string, each stripped.
StrippedItems(s, sep) ==
    [i \in 1..Len(splitAll(s, sep)) |-> strip(splitAll(s, sep)[i])]

\* C17: a string gives its sep-separated items, stripped, without the empty
\* ones unless keep_empty is set; None and False give the empty list; a list
\* gives a list of the same elements in the same order.
C17_ToListKeepsElements ==
    tlast.op = "to_list" =>
        CASE tlast.value.kind = "str" ->
                tlast.items =
                    Strings(IF tlast.keep_empty
                            THEN StrippedItems(tlast.value.s, tlast.sep)
                            ELSE SelectSeq(StrippedItems(tlast.value.s, tlast.sep),
                                           LAMBDA item : item # <<>>))
          [] tlast.value.kind \in {"None", "False"} ->
                tlast.items = Strings(<<>>)
          [] OTHER -> tlast.items = Numbers(tlast.value.items)

----------------------------------------------------------------------------
(* Properties of cached_property *)

\* C18: the first access of value on an instance calls the function once
\* (_value counts its calls), stores its result on the instance and returns
\* it; every later access returns the stored value and calls nothing; no
\* access touches another instance, so the function runs at most once per
\* instance; access on the class returns the descriptor.
C18_ComputedOncePerInstance ==
    [][/\ clast'.op = "get" =>
            LET i == clast'.instance IN
            /\ IF tests[i].cached
               THEN /\ tests'[i] = tests[i]
                    /\ clast'.value = Number(tests[i].value)
               ELSE /\ tests'[i]._value = tests[i]._value + 1
                    /\ tests'[i].cached
                    /\ tests'[i].value = tests'[i]._value
                    /\ clast'.value = Number(tests'[i]._value)
            /\ tests'[i]._value <= 1
            /\ \A j \in 1..Len(tests) : j # i => tests'[j] = tests[j]
       /\ clast'.op = "class" => (clast'.value = TheDescriptor /\ tests' = tests)
      ]_vars

\* Two instances, both computed once, and the one accessed last was accessed
\* before: it returned its stored value.
C18_Witness ==
    /\ Len(tests) >= 2
    /\ clast.op = "get"
    /\ clast.instance = 1
    /\ clast.value = Number(1)
    /\ tests[1] = [_value |-> 1, cached |-> TRUE, value |-> 1]
    /\ tests[2] = [_value |-> 1, cached |-> TRUE, value |-> 1]

----------------------------------------------------------------------------
(* Properties of Application.__call__ *)

\* C19: a POST whose __FORM_TOKEN field is absent or is not the request's
\* form token is answered 400 'Invalid form token'; no view was invoked for
\* it and the session store is what it was.
C19_PostWithoutTokenRejected ==
    [][(/\ wlast'.op = "request"
        /\ wlast'.method = "POST"
        /\ (wlast'.field = NoToken \/ wlast'.field # wlast'.token))
          => /\ wlast'.status = BadRequestStatus
             /\ wlast'.body = InvalidFormToken
             /\ ~wlast'.invoked
             /\ ~wlast'.saved
             /\ sessionStore' = sessionStore]_vars

\* A POST of '/' without the field, with a view exposed at '/' and a session
\* in the store: rejected, nothing invoked, nothing saved.
C19_Witness ==
    /\ wlast.op = "request"
    /\ wlast.method = "POST"
    /\ wlast.field = NoToken
    /\ wlast.routed
    /\ wlast.status = BadRequestStatus
    /\ ~wlast.invoked
    /\ sessionStore.saved

----------------------------------------------------------------------------
(* Properties of the ThreadPool *)

\* C20: every job passed to add() is eventually executed, and no job is
\* executed more than once.
C20_EveryJobRunsOnce ==
    \A id \in 1..MaxJobs :
        /\ (added >= id) ~> (executed[id] = 1)
        /\ [](executed[id] <= 1)

\* C21: quit() returns, having put one stop sentinel per worker on the queue,
\* and when it has returned every worker has taken a sentinel and terminated:
\* no sentinel is left and every thread of the pool has finished.
C21_QuitStopsWorkers ==
    [][poolLast'.op = "quit"
        => /\ poolLast'.exc = "none"
           /\ queue' = <<>>
           /\ \A t \in Workers : pool'[t] = Finished]_vars

----------------------------------------------------------------------------
(* Properties of dispatch_command *)

\* The registered names that are a prefix of the command line last
\* dispatched, the longest of them, and the words after it.
Prefixes ==
    {k \in DOMAIN commands :
        /\ Len(k) <= Len(dlast.args)
        /\ SubSeq(dlast.args, 1, Len(k)) = k}
LongestPrefix == CHOOSE k \in Prefixes : \A j \in Prefixes : Len(j) <= Len(k)
Remaining == SubSeq(dlast.args, Len(LongestPrefix) + 1, Len(dlast.args))
OnlyOneCommand == Cardinality(DOMAIN commands) = 1

\* The last call raised CommandError when the words after the name are
\* fewer than the command's parameters without defaults, or more than its
\* parameters when it takes no varargs; otherwise it invoked the command
\* with those words and returned True.
InvokedWithRemaining(function) ==
    IF Len(Remaining) < Len(function.args) - function.defaults
    THEN dlast.r = RaisedBy("CommandError")
    ELSE IF ~function.varargs /\ Len(Remaining) > Len(function.args)
    THEN dlast.r = RaisedBy("CommandError")
    ELSE dlast.r = Dispatched("none", "True", function, Remaining)

\* C22: dispatch_command(args) invokes the registered command whose name
\* words are the longest prefix of args with the remaining args and returns
\* True; it raises CommandError when args is empty, when no command is a
\* prefix of args, when the remaining args are fewer than the parameters
\* without defaults or more than the command accepts without varargs; and
\* it returns False, invoking nothing, when only one command is registered.
C22_DispatchInvokesLongestMatch ==
    dlast.op = "dispatch_command"
        => /\ dlast.args = <<>> => dlast.r = RaisedBy("CommandError")
           /\ OnlyOneCommand => dlast.r = Dispatched("none", "False", NoFunction, <<>>)
           /\ (dlast.args # <<>> /\ ~OnlyOneCommand)
                => IF Prefixes = {} THEN dlast.r = RaisedBy("CommandError")
                   ELSE InvokedWithRemaining(commands[LongestPrefix])

\* C22, amended: with exactly one command registered dispatch_command
\* returns False and invokes nothing, whatever args is; otherwise it raises
\* CommandError when args is empty or no command is a prefix of args, raises
\* ValueError when the command of the longest prefix takes keyword
\* wildcards, and else checks the number of remaining args (CommandError
\* when too few or too many), invokes that command with them and returns
\* True.
C22_DispatchAfterSingleCommandCheck ==
    dlast.op = "dispatch_command"
        => IF OnlyOneCommand
           THEN dlast.r = Dispatched("none", "False", NoFunction, <<>>)
           ELSE IF dlast.args = <<>> \/ Prefixes = {}
           THEN dlast.r = RaisedBy("CommandError")
           ELSE IF commands[LongestPrefix].keywords
           THEN dlast.r = RaisedBy("ValueError")
           ELSE InvokedWithRemaining(commands[LongestPrefix])

\* Two registered names are a prefix of the command line dispatched, and
\* the command of the longer one was invoked with the word after it.
C22_Witness ==
    /\ dlast.op = "dispatch_command"
    /\ Cardinality(Prefixes) = 2
    /\ dlast.r.returned = "True"
    /\ dlast.r.invoked = user_new
    /\ dlast.r.passed # <<>>

====
